---- MODULE Spec2Model ----
(***************************************************************************)
(* A model of pointillism_pipeline.py: palette-constrained Floyd-Steinberg *)
(* dithering, the staggered hexagonal grid mapper, and the SVG / STL       *)
(* geometry export driven by run().                                        *)
(*                                                                         *)
(* Python's float is the IEEE-754 binary64 format.  The grid mapper's      *)
(* decisions (which dots are trimmed, the extents) depend on its rounding, *)
(* so floats are modelled exactly: a float is a record                     *)
(*     [s |-> sign, m |-> mantissa, e |-> exponent]   value = s * m * 2^e  *)
(* whose mantissa is a natural number of exactly 53 bits (zero: s = 0),    *)
(* kept as a little-endian sequence of 14-bit limbs because the mantissa   *)
(* does not fit the model checker's integers.  Every operation computes    *)
(* the exact result and rounds it to nearest, ties to even.  Exponent      *)
(* overflow and subnormals are not modelled: the inputs are moderate.      *)
(***************************************************************************)
EXTENDS Integers, Sequences, FiniteSets, TLC

\* ------------------------------------------------------------------------
\* Natural numbers of arbitrary size: little-endian sequences of limbs.
\* ------------------------------------------------------------------------

LimbBits == 7 * 2
Base == 2 ^ LimbBits

Pow2(k) == 2 ^ k

RECURSIVE BitLen(_)
BitLen(n) == IF n = 0 THEN 0 ELSE 1 + BitLen(n \div 2)

RECURSIVE NNorm(_)
NNorm(a) ==
    IF a = <<>> THEN <<>>
    ELSE IF a[Len(a)] = 0 THEN NNorm(SubSeq(a, 1, Len(a) - 1))
    ELSE a

RECURSIVE NFromInt(_)
NFromInt(n) == IF n = 0 THEN <<>> ELSE <<n % Base>> \o NFromInt(n \div Base)

RECURSIVE NToInt(_)
NToInt(a) == IF a = <<>> THEN 0 ELSE Head(a) + Base * NToInt(Tail(a))

Rest(a) == IF a = <<>> THEN <<>> ELSE Tail(a)
First(a) == IF a = <<>> THEN 0 ELSE Head(a)

RECURSIVE NAddC(_, _, _)
NAddC(a, b, c) ==
    IF a = <<>> /\ b = <<>> THEN (IF c = 0 THEN <<>> ELSE <<c>>)
    ELSE LET t == First(a) + First(b) + c
         IN  <<t % Base>> \o NAddC(Rest(a), Rest(b), t \div Base)

NAdd(a, b) == NAddC(a, b, 0)

\* a - b for a >= b
RECURSIVE NSubB(_, _, _)
NSubB(a, b, c) ==
    IF a = <<>> THEN <<>>
    ELSE LET t == Head(a) - First(b) - c
         IN  IF t < 0 THEN <<t + Base>> \o NSubB(Tail(a), Rest(b), 1)
             ELSE <<t>> \o NSubB(Tail(a), Rest(b), 0)

NSub(a, b) == NNorm(NSubB(a, b, 0))

\* -1, 0, 1 as a < b, a = b, a > b (normalised operands)
RECURSIVE NCmpTop(_, _, _)
NCmpTop(a, b, i) ==
    IF i = 0 THEN 0
    ELSE IF a[i] < b[i] THEN -1
    ELSE IF a[i] > b[i] THEN 1
    ELSE NCmpTop(a, b, i - 1)

NCmp(a, b) ==
    IF Len(a) < Len(b) THEN -1
    ELSE IF Len(a) > Len(b) THEN 1
    ELSE NCmpTop(a, b, Len(a))

RECURSIVE NMulLimbC(_, _, _)
NMulLimbC(a, k, c) ==
    IF a = <<>> THEN (IF c = 0 THEN <<>> ELSE <<c>>)
    ELSE LET t == Head(a) * k + c
         IN  <<t % Base>> \o NMulLimbC(Tail(a), k, t \div Base)

NMulLimb(a, k) == NNorm(NMulLimbC(a, k, 0))

RECURSIVE NMul(_, _)
NMul(a, b) ==
    IF b = <<>> \/ a = <<>> THEN <<>>
    ELSE LET hi == NMul(a, Tail(b))
         IN  NAdd(NMulLimb(a, Head(b)), IF hi = <<>> THEN <<>> ELSE <<0>> \o hi)

Zeros(n) == [i \in 1..n |-> 0]

NShl(a, k) ==
    IF a = <<>> THEN <<>>
    ELSE Zeros(k \div LimbBits) \o NMulLimb(a, Pow2(k % LimbBits))

NShr(a, k) ==
    LET d == SubSeq(a, (k \div LimbBits) + 1, Len(a))
        r == k % LimbBits
    IN  NNorm([i \in 1..Len(d) |->
                 (d[i] \div Pow2(r))
                 + (IF i < Len(d) THEN (d[i + 1] % Pow2(r)) * Pow2(LimbBits - r)
                    ELSE 0)])

NBitLen(a) ==
    IF a = <<>> THEN 0 ELSE LimbBits * (Len(a) - 1) + BitLen(a[Len(a)])

\* bit i (bit 0 is the least significant)
NBit(a, i) ==
    LET j == (i \div LimbBits) + 1
    IN  IF j > Len(a) THEN 0 ELSE (a[j] \div Pow2(i % LimbBits)) % 2

\* some bit below bit k is set
NLowBits(a, k) == NShl(NShr(a, k), k) # a

\* the largest digit d with b * d <= r, searched downward from an estimate
\* that is never below it
RECURSIVE NDigitDown(_, _, _)
NDigitDown(r, b, d) ==
    IF NCmp(NMulLimb(b, d), r) <= 0 THEN d ELSE NDigitDown(r, b, d - 1)

\* floor(r / b) for r < b * Base: estimated from the two top limbs of r and the
\* top limb of b (at most 2 too large when that limb has its top bit set)
NDigit(r, b) ==
    LET n   == Len(b)
        top == (IF Len(r) > n THEN r[n + 1] ELSE 0) * Base
               + (IF Len(r) >= n THEN r[n] ELSE 0)
        est == top \div b[n]
    IN  NDigitDown(r, b, IF est < Base THEN est ELSE Base - 1)

\* schoolbook long division, one limb of a at a time from limb i down:
\* <<quotient limbs, remainder>> of (r * Base^i + low i limbs of a) / b
RECURSIVE NDivStep(_, _, _, _)
NDivStep(a, b, i, r) ==
    IF i = 0 THEN <<<<>>, r>>
    ELSE LET r2   == NNorm(<<a[i]>> \o r)
             d    == NDigit(r2, b)
             rest == NDivStep(a, b, i - 1, NSub(r2, NMulLimb(b, d)))
         IN  <<rest[1] \o <<d>>, rest[2]>>

\* <<floor(a / b), a mod b>> for b # 0; both are first shifted left so that
\* the top limb of b is full, which leaves the quotient as it is
NDivMod(a, b) ==
    LET sh == LimbBits - BitLen(b[Len(b)])
        qr == NDivStep(NShl(a, sh), NShl(b, sh), Len(NShl(a, sh)), <<>>)
    IN  <<NNorm(qr[1]), NShr(qr[2], sh)>>

\* ------------------------------------------------------------------------
\* binary64 floats
\* ------------------------------------------------------------------------

MantBits == 52 + 1

FZero == [s |-> 0, m |-> <<>>, e |-> 0]

\* s * n * 2^e rounded to nearest, ties to even
FPack(s, n, e) ==
    IF n = <<>> \/ s = 0 THEN FZero
    ELSE LET L == NBitLen(n) IN
         IF L <= MantBits
         THEN [s |-> s, m |-> NShl(n, MantBits - L), e |-> e - (MantBits - L)]
         ELSE LET k    == L - MantBits
                  q    == NShr(n, k)
                  half == NBit(n, k - 1) = 1
                  up   == half /\ (NLowBits(n, k - 1) \/ NBit(q, 0) = 1)
                  q1   == IF up THEN NAdd(q, <<1>>) ELSE q
              IN  IF NBitLen(q1) > MantBits
                  THEN [s |-> s, m |-> NShr(q1, 1), e |-> e + k + 1]
                  ELSE [s |-> s, m |-> q1, e |-> e + k]

FFromInt(n) == FPack(IF n < 0 THEN -1 ELSE 1, NFromInt(IF n < 0 THEN -n ELSE n), 0)

FNeg(a) == [a EXCEPT !.s = -a.s]

FAdd(a, b) ==
    IF a.s = 0 THEN b
    ELSE IF b.s = 0 THEN a
    ELSE LET lo == IF a.e < b.e THEN a.e ELSE b.e
             A  == NShl(a.m, a.e - lo)
             B  == NShl(b.m, b.e - lo)
             c  == NCmp(A, B)
         IN  IF a.s = b.s THEN FPack(a.s, NAdd(A, B), lo)
             ELSE IF c = 0 THEN FZero
             ELSE IF c > 0 THEN FPack(a.s, NSub(A, B), lo)
             ELSE FPack(b.s, NSub(B, A), lo)

FSub(a, b) == FAdd(a, FNeg(b))

FMul(a, b) == FPack(a.s * b.s, NMul(a.m, b.m), a.e + b.e)

\* a / b for b # 0: the quotient to 57 bits with a sticky bit, then rounded
FDiv(a, b) ==
    IF a.s = 0 THEN FZero
    ELSE LET qr == NDivMod(NShl(a.m, MantBits + 3), b.m)
             n  == NAdd(NShl(qr[1], 1), IF qr[2] = <<>> THEN <<>> ELSE <<1>>)
         IN  FPack(a.s * b.s, n, a.e - b.e - (MantBits + 4))

\* -1, 0, 1 as a < b, a = b, a > b
FCmp(a, b) == FSub(a, b).s

FGt(a, b) == FCmp(a, b) > 0

FMax(a, b) == IF FGt(b, a) THEN b ELSE a

\* int(f): truncation toward zero
FTrunc(f) ==
    IF f.s = 0 THEN 0
    ELSE f.s * NToInt(IF f.e >= 0 THEN NShl(f.m, f.e) ELSE NShr(f.m, -f.e))

\* n / 2^k (k >= 1) rounded to the nearest integer, ties to even
RoundShift(n, k) ==
    LET q    == NShr(n, k)
        half == NBit(n, k - 1) = 1
        up   == half /\ (NLowBits(n, k - 1) \/ NBit(q, 0) = 1)
    IN  IF up THEN NAdd(q, <<1>>) ELSE q

\* round(f): to the nearest integer, ties to even
FRound(f) ==
    IF f.s = 0 THEN 0
    ELSE f.s * NToInt(IF f.e >= 0 THEN NShl(f.m, f.e) ELSE RoundShift(f.m, -f.e))

\* f"{f:.3f}": the decimal nearest to the exact value, as a count of thousandths
Fixed3(f) ==
    IF f.s = 0 THEN 0
    ELSE LET n == NMulLimb(f.m, 1000)
         IN  f.s * NToInt(IF f.e >= 0 THEN NShl(n, f.e) ELSE RoundShift(n, -f.e))

\* float(str) of the decimal n/10: the double nearest to it
Tenths(n) == FDiv(FFromInt(n), FFromInt(10))

FTwo == FFromInt(2)

\* math.sqrt(3) = 0x1.bb67ae8584caap+0
Sqrt3 == [s |-> 1, m |-> <<3242, 8545, 10158, 1773>>, e |-> -52]

\* ------------------------------------------------------------------------
\* State
\* ------------------------------------------------------------------------

VARIABLES
    pc,              \* the statement of the pipeline that runs next
    err,             \* the exception that ended the run ("" while none)
    args,            \* the arguments of run(): constant after Init
    palette,         \* List[Tuple[str, Color]] returned by load_palette
    width, height,   \* img.size of the resized image
    pixels,          \* img.load(): <<x, y>> -> <<r, g, b>>, mutated in place
    color_grid,      \* <<x, y>> -> palette name ("" is <<>>)
    ix, iy,          \* the loop variables x, y of the running scan
    writes,          \* the pixel stores add_error made in the last iteration
    pitch, radius, width_limit,   \* locals of export_masks / run
    coords,          \* Dict[name, List[(x_mm, y_mm)]]
    emitted,         \* history: the grid cell of every point appended to coords
    masks,           \* mask_<slug>.png: name -> set of pixels set to 1
    width_mm_used, height_mm_used,
    svg,             \* the elements export_svg wrote, in order
    stl,             \* the write_ascii_stl calls, in order
    files,           \* Dict[part name, file name] returned by export_stl_meshes
    metadata,        \* the record save_metadata wrote
    query, best      \* argument and result of a direct nearest_color call

vars == <<pc, err, args, palette, width, height, pixels, color_grid, ix, iy,
          writes, pitch, radius, width_limit, coords, emitted, masks,
          width_mm_used, height_mm_used, svg, stl, files, metadata, query, best>>

\* an optional list of names: None, or the list given
None == [given |-> FALSE, names |-> <<>>]
Given(names) == [given |-> TRUE, names |-> names]

\* Strings are sequences of one-character strings, so that lower() and
\* slugify can be computed.
Str(c) == <<c>>

Cells(w, h) == (0..(w - 1)) \X (0..(h - 1))

\* ------------------------------------------------------------------------
\* Strings: lower(), _parse_hex, slugify
\* ------------------------------------------------------------------------

UpperCase == <<"A", "B", "C", "D", "E", "F", "G", "H", "I", "J", "K", "L", "M",
               "N", "O", "P", "Q", "R", "S", "T", "U", "V", "W", "X", "Y", "Z">>
LowerCase == <<"a", "b", "c", "d", "e", "f", "g", "h", "i", "j", "k", "l", "m",
               "n", "o", "p", "q", "r", "s", "t", "u", "v", "w", "x", "y", "z">>
Digits == <<"0", "1", "2", "3", "4", "5", "6", "7", "8", "9">>

IndexIn(c, seq) == IF \E i \in 1..Len(seq) : seq[i] = c
                   THEN CHOOSE i \in 1..Len(seq) : seq[i] = c
                   ELSE 0

LowerChar(c) == IF IndexIn(c, UpperCase) > 0 THEN LowerCase[IndexIn(c, UpperCase)] ELSE c

Lower(str) == [i \in 1..Len(str) |-> LowerChar(str[i])]

RECURSIVE LStrip(_, _)
LStrip(str, chars) ==
    IF str # <<>> /\ Head(str) \in chars THEN LStrip(Tail(str), chars) ELSE str

RECURSIVE RStrip(_, _)
RStrip(str, chars) ==
    IF str # <<>> /\ str[Len(str)] \in chars
    THEN RStrip(SubSeq(str, 1, Len(str) - 1), chars)
    ELSE str

Strip(str, chars) == RStrip(LStrip(str, chars), chars)

\* the value of a hexadecimal digit, -1 for any other character
HexValue(c) ==
    IF IndexIn(c, Digits) > 0 THEN IndexIn(c, Digits) - 1
    ELSE IF IndexIn(c, SubSeq(LowerCase, 1, 6)) > 0 THEN 9 + IndexIn(c, SubSeq(LowerCase, 1, 6))
    ELSE IF IndexIn(c, SubSeq(UpperCase, 1, 6)) > 0 THEN 9 + IndexIn(c, SubSeq(UpperCase, 1, 6))
    ELSE -1

\* the characters str.strip() removes, among those a palette file is written in
Whitespace == {" ", "\t", "\n", "\r", "\f"}

\* line 35
HexBody(str) == LStrip(Strip(str, Whitespace), {"#"})

HexValid(str) ==
    LET t == HexBody(str)
    IN  Len(t) = 6 /\ \A i \in 1..6 : HexValue(t[i]) >= 0

\* _parse_hex for a valid string
ParseHex(str) ==
    LET t == HexBody(str)
    IN  [c \in 1..3 |-> 16 * HexValue(t[2 * c - 1]) + HexValue(t[2 * c])]

SlugChar(c) == IndexIn(c, LowerCase) > 0 \/ IndexIn(c, Digits) > 0

\* re.sub(r"[^a-z0-9]+", "-", ...): every run of other characters becomes one "-"
RECURSIVE SlugRuns(_, _)
SlugRuns(str, inRun) ==
    IF str = <<>> THEN <<>>
    ELSE IF SlugChar(Head(str)) THEN <<Head(str)>> \o SlugRuns(Tail(str), FALSE)
    ELSE IF inRun THEN SlugRuns(Tail(str), TRUE)
    ELSE <<"-">> \o SlugRuns(Tail(str), TRUE)

slugify(name) == Strip(SlugRuns(Lower(name), FALSE), {"-"})

\* f"{v:02X}" for each channel behind "#"
HexDigitUpper(d) == IF d < 10 THEN Digits[d + 1] ELSE UpperCase[d - 9]

ColorHexString(c) ==
    <<"#", HexDigitUpper(c[1] \div 16), HexDigitUpper(c[1] % 16),
           HexDigitUpper(c[2] \div 16), HexDigitUpper(c[2] % 16),
           HexDigitUpper(c[3] \div 16), HexDigitUpper(c[3] % 16)>>

\* ------------------------------------------------------------------------
\* nearest_color
\* ------------------------------------------------------------------------

\* float("inf"): every distance is below it
InfDist == -1

SqDist(c, p) ==
    (c[1] - p[1]) * (c[1] - p[1]) + (c[2] - p[2]) * (c[2] - p[2])
    + (c[3] - p[3]) * (c[3] - p[3])

\* a slip: "<=" for "<", which keeps the last of several nearest entries
CloserOrEqual(dist, best_dist) == best_dist = InfDist \/ dist <= best_dist

\* dist < best_dist
Closer(dist, best_dist) == best_dist = InfDist \/ dist < best_dist

\* the for loop of nearest_color from entry i on
RECURSIVE NearestLoop(_, _, _, _, _)
NearestLoop(color, pal, i, bst, best_dist) ==
    IF i > Len(pal) THEN bst
    ELSE LET dist == SqDist(color, pal[i].color)
         IN  IF Closer(dist, best_dist)
             THEN NearestLoop(color, pal, i + 1, pal[i], dist)
             ELSE NearestLoop(color, pal, i + 1, bst, best_dist)

nearest_color(color, pal) == NearestLoop(color, pal, 1, pal[1], InfDist)

\* ------------------------------------------------------------------------
\* floyd_steinberg_dither
\* ------------------------------------------------------------------------

\* int(v / 16) for the float v / 16: truncation toward zero
TruncSixteenths(v) == IF v >= 0 THEN v \div 16 ELSE -((-v) \div 16)

\* a slip: the sum stored as it is
Unclamped(v) == v

Clamp(v) == IF v > 255 THEN 255 ELSE IF v < 0 THEN 0 ELSE v

InBounds(px, py, w, h) == 0 <= px /\ px < w /\ 0 <= py /\ py < h

\* int(p + f) per channel.  The error shares f = err * k / 16 are exact floats;
\* f16 is 16 * f.
RawSum(p, f16) == [c \in 1..3 |-> TruncSixteenths(16 * p[c] + f16[c])]

\* the value add_error stores: min(255, max(0, int(p + f))) per channel
Diffused(p, f16) == [c \in 1..3 |-> Clamp(RawSum(p, f16)[c])]

add_error(pix, w, h, px, py, f16) ==
    IF InBounds(px, py, w, h)
    THEN [pix EXCEPT ![<<px, py>>] = Diffused(pix[<<px, py>>], f16)]
    ELSE pix

\* a slip: the 7/16 share sent west, to a pixel that is already quantized
TargetsWest(x, y) ==
    << <<x - 1, y, 7>>, <<x - 1, y + 1, 3>>, <<x, y + 1, 5>>, <<x + 1, y + 1, 1>> >>

\* the four add_error calls of one iteration: target and weight (in 1/16)
DiffusionTargets(x, y) ==
    << <<x + 1, y, 7>>, <<x - 1, y + 1, 3>>, <<x, y + 1, 5>>, <<x + 1, y + 1, 1>> >>

RECURSIVE DiffuseAll(_, _, _, _, _, _)
DiffuseAll(pix, w, h, targets, e, i) ==
    IF i > Len(targets) THEN pix
    ELSE LET t == targets[i]
         IN  DiffuseAll(add_error(pix, w, h, t[1], t[2], [c \in 1..3 |-> e[c] * t[3]]),
                        w, h, targets, e, i + 1)

\* the stores the add_error calls make, in call order
RECURSIVE WriteLog(_, _, _, _, _, _)
WriteLog(pix, w, h, targets, e, i) ==
    IF i > Len(targets) THEN <<>>
    ELSE LET t   == targets[i]
             f16 == [c \in 1..3 |-> e[c] * t[3]]
             nxt == add_error(pix, w, h, t[1], t[2], f16)
         IN  (IF InBounds(t[1], t[2], w, h)
              THEN <<[px |-> t[1], py |-> t[2], raw |-> RawSum(pix[<<t[1], t[2]>>], f16),
                      value |-> nxt[<<t[1], t[2]>>]]>>
              ELSE <<>>)
             \o WriteLog(nxt, w, h, targets, e, i + 1)

\* where the scan goes after (x, y)
NextX(x, w) == IF x + 1 < w THEN x + 1 ELSE 0
NextY(x, y, w) == IF x + 1 < w THEN y ELSE y + 1

Stage(s) == pc = s /\ err = ""

\* one iteration of the loop body, lines 114-133
DitherPixel ==
    /\ Stage("dither")
    /\ iy < height
    /\ LET old == pixels[<<ix, iy>>]
           nc  == nearest_color(old, palette)
           e   == [c \in 1..3 |-> old[c] - nc.color[c]]
           pix == [pixels EXCEPT ![<<ix, iy>>] = nc.color]
           tgt == DiffusionTargets(ix, iy)
       IN  /\ pixels' = DiffuseAll(pix, width, height, tgt, e, 1)
           /\ writes' = WriteLog(pix, width, height, tgt, e, 1)
           /\ color_grid' = [color_grid EXCEPT ![<<ix, iy>>] = nc.name]
    /\ ix' = NextX(ix, width)
    /\ iy' = NextY(ix, iy, width)
    /\ UNCHANGED <<pc, err, args, palette, width, height, pitch, radius,
                   width_limit, coords, emitted, masks, width_mm_used,
                   height_mm_used, svg, stl, files, metadata, query, best>>

\* line 135: return img, color_grid; run line 343 saves dithered.png
DitherReturn ==
    /\ Stage("dither")
    /\ iy = height
    /\ pc' = "masks_init"
    /\ UNCHANGED <<err, args, palette, width, height, pixels, color_grid, ix, iy,
                   writes, pitch, radius, width_limit, coords, emitted, masks,
                   width_mm_used, height_mm_used, svg, stl, files, metadata,
                   query, best>>

\* lines 107-110: the scan starts on an empty name grid
DitherInit ==
    /\ Stage("dither_init")
    /\ color_grid' = [c \in Cells(width, height) |-> <<>>]
    /\ ix' = 0
    /\ iy' = 0
    /\ writes' = <<>>
    /\ pc' = "dither"
    /\ UNCHANGED <<err, args, palette, width, height, pixels, pitch, radius,
                   width_limit, coords, emitted, masks, width_mm_used,
                   height_mm_used, svg, stl, files, metadata, query, best>>

\* ------------------------------------------------------------------------
\* load_palette (the .json branch) and resize_image_hex
\* ------------------------------------------------------------------------

\* lines 71-73: the entries whose lower-cased name is selected
RECURSIVE SelectColors(_, _)
SelectColors(colors, lower) ==
    IF colors = <<>> THEN <<>>
    ELSE (IF Lower(Head(colors).name) \in lower THEN <<Head(colors)>> ELSE <<>>)
         \o SelectColors(Tail(colors), lower)

load_palette(items, select) ==
    LET colors == [i \in 1..Len(items) |->
                     [name |-> items[i].name, color |-> ParseHex(items[i].hex)]]
    IN  IF select.given /\ select.names # <<>>
        THEN SelectColors(colors, {Lower(select.names[i]) : i \in 1..Len(select.names)})
        ELSE colors

\* run line 337
LoadPalette ==
    /\ Stage("load")
    /\ IF \E i \in 1..Len(args.palette_file) : ~HexValid(args.palette_file[i].hex)
       THEN /\ err' = "ValueError: Invalid hex color"
            /\ UNCHANGED <<palette, pc>>
       ELSE LET colors == load_palette(args.palette_file, args.selected_colors)
            IN  IF colors = <<>>
                THEN /\ err' = "ValueError: Palette is empty after loading/filtering."
                     /\ UNCHANGED <<palette, pc>>
                ELSE /\ palette' = colors
                     /\ pc' = "resize"
                     /\ err' = err
    /\ UNCHANGED <<args, width, height, pixels, color_grid, ix, iy, writes, pitch,
                   radius, width_limit, coords, emitted, masks, width_mm_used,
                   height_mm_used, svg, stl, files, metadata, query, best>>

Max(a, b) == IF a > b THEN a ELSE b
Min(a, b) == IF a < b THEN a ELSE b

\* lines 85-87: the pixel size of the resized image, for spacing_mm # 0
TargetWidth(target_width_mm, spacing) ==
    Max(1, FRound(FDiv(target_width_mm, spacing)))

TargetHeight(target_px_w, img) ==
    Max(1, FRound(FMul(FFromInt(target_px_w),
                       FDiv(FFromInt(img.height), FFromInt(img.width)))))

\* run lines 339-340: Image.open and resize_image_hex.  The resampled pixel
\* values are the imaging library's: any colors of PixelColors.
PixelColors == {<<255, 0, 0>>, <<130, 0, 120>>}

Resize ==
    /\ Stage("resize")
    /\ IF args.spacing_mm.s = 0
       THEN /\ err' = "ZeroDivisionError"
            /\ UNCHANGED <<pc, width, height, pixels>>
       ELSE LET w == TargetWidth(args.width_mm, args.spacing_mm)
                h == TargetHeight(w, args.image)
            IN  /\ width' = w
                /\ height' = h
                /\ pixels' \in [Cells(w, h) -> PixelColors]
                /\ pc' = "dither_init"
                /\ err' = err
    /\ UNCHANGED <<args, palette, color_grid, ix, iy, writes, pitch, radius,
                   width_limit, coords, emitted, masks, width_mm_used,
                   height_mm_used, svg, stl, files, metadata, query, best>>

\* ------------------------------------------------------------------------
\* export_masks
\* ------------------------------------------------------------------------

Names(pal) == {pal[i].name : i \in 1..Len(pal)}

\* the keys of {name: [] for name, _ in palette} in insertion order
RECURSIVE KeyOrder(_)
KeyOrder(pal) ==
    IF pal = <<>> THEN <<>>
    ELSE LET front == KeyOrder(SubSeq(pal, 1, Len(pal) - 1))
             name  == pal[Len(pal)].name
         IN  IF \E i \in 1..Len(front) : front[i] = name THEN front
             ELSE Append(front, name)

\* line 148
Pitch(spacing) == FDiv(FMul(spacing, Sqrt3), FTwo)

\* lines 149 and 346
Radius(dot_diameter) == FDiv(dot_diameter, FTwo)

\* lines 150 and 347
WidthLimit(w, spacing, dot_diameter) ==
    FAdd(FMul(FFromInt(w - 1), spacing), dot_diameter)

\* a slip: the stagger put on the even rows
XOffEven(y, spacing) == IF y % 2 = 0 THEN FDiv(spacing, FTwo) ELSE FZero

\* line 156
XOff(y, spacing) == IF y % 2 = 1 THEN FDiv(spacing, FTwo) ELSE FZero

\* line 157
CellY(y, r, p) == FAdd(r, FMul(FFromInt(y), p))

\* line 158
CellX(x, y, r, spacing) == FAdd(FAdd(r, FMul(FFromInt(x), spacing)), XOff(y, spacing))

\* a slip: ">=" for ">", which also trims the dot that just fits
OverhangsOrTouches(x_mm, limit, r) == FCmp(x_mm, FSub(limit, r)) >= 0

\* line 159
Overhangs(x_mm, limit, r) == FGt(x_mm, FSub(limit, r))

\* lines 145-150
MasksInit ==
    /\ Stage("masks_init")
    /\ coords' = [n \in Names(palette) |-> <<>>]
    /\ emitted' = <<>>
    /\ pitch' = Pitch(args.spacing_mm)
    /\ radius' = Radius(args.dot_diameter_mm)
    /\ width_limit' = WidthLimit(width, args.spacing_mm, args.dot_diameter_mm)
    /\ ix' = 0
    /\ iy' = 0
    /\ pc' = "masks"
    /\ UNCHANGED <<err, args, palette, width, height, pixels, color_grid, writes,
                   masks, width_mm_used, height_mm_used, svg, stl, files,
                   metadata, query, best>>

\* one iteration of the loop body, lines 154-161
MaskCell ==
    /\ Stage("masks")
    /\ iy < height
    /\ LET name == color_grid[<<ix, iy>>]
           y_mm == CellY(iy, radius, pitch)
           x_mm == CellX(ix, iy, radius, args.spacing_mm)
       IN  IF Overhangs(x_mm, width_limit, radius)
           THEN UNCHANGED <<coords, emitted>>
           ELSE /\ coords' = [coords EXCEPT ![name] = Append(@, <<x_mm, y_mm>>)]
                /\ emitted' = Append(emitted,
                                     [x |-> ix, y |-> iy, name |-> name,
                                      pt |-> <<x_mm, y_mm>>])
    /\ ix' = NextX(ix, width)
    /\ iy' = NextY(ix, iy, width)
    /\ UNCHANGED <<pc, err, args, palette, width, height, pixels, color_grid,
                   writes, pitch, radius, width_limit, masks, width_mm_used,
                   height_mm_used, svg, stl, files, metadata, query, best>>

Range(seq) == {seq[i] : i \in 1..Len(seq)}

\* lines 168-169: the mask pixel nearest to a point
MaskPixel(pt, w, h, r, spacing, p) ==
    <<Min(w - 1, Max(0, FRound(FDiv(FSub(pt[1], r), spacing)))),
      Min(h - 1, Max(0, FRound(FDiv(FSub(pt[2], r), p))))>>

\* lines 163-171: one mask file per slug; a later palette entry with the same
\* slug overwrites the file
MaskImages(pal, crd, w, h, r, spacing, p) ==
    [sl \in {slugify(n) : n \in Names(pal)} |->
        LET last == CHOOSE i \in 1..Len(pal) :
                       /\ slugify(pal[i].name) = sl
                       /\ \A j \in (i + 1)..Len(pal) : slugify(pal[j].name) # sl
        IN  {MaskPixel(pt, w, h, r, spacing, p) : pt \in Range(crd[pal[last].name])}]

\* lines 163-172
MasksReturn ==
    /\ Stage("masks")
    /\ iy = height
    /\ masks' = MaskImages(palette, coords, width, height, radius,
                           args.spacing_mm, pitch)
    /\ pc' = "extents"
    /\ UNCHANGED <<err, args, palette, width, height, pixels, color_grid, ix, iy,
                   writes, pitch, radius, width_limit, coords, emitted,
                   width_mm_used, height_mm_used, svg, stl, files, metadata,
                   query, best>>

\* ------------------------------------------------------------------------
\* run: the extents, lines 345-354
\* ------------------------------------------------------------------------

\* line 350: the points of coords.values() in key order
RECURSIVE AllPoints(_, _)
AllPoints(crd, keys) ==
    IF keys = <<>> THEN <<>> ELSE crd[Head(keys)] \o AllPoints(crd, Tail(keys))

\* max(pt[c] for pt in pts), 0.0 for no points
RECURSIVE MaxCoord(_, _)
MaxCoord(pts, c) ==
    IF pts = <<>> THEN FZero
    ELSE IF Len(pts) = 1 THEN pts[1][c]
    ELSE FMax(MaxCoord(SubSeq(pts, 1, Len(pts) - 1), c), pts[Len(pts)][c])

\* line 353
WidthUsed(limit, max_x, r) == FMax(limit, FAdd(max_x, r))

\* line 354
HeightUsed(max_y, r) == FAdd(max_y, r)

Extents ==
    /\ Stage("extents")
    /\ LET pts == AllPoints(coords, KeyOrder(palette))
           r   == Radius(args.dot_diameter_mm)
       IN  /\ width_mm_used' =
                 WidthUsed(WidthLimit(width, args.spacing_mm, args.dot_diameter_mm),
                           MaxCoord(pts, 1), r)
           /\ height_mm_used' = HeightUsed(MaxCoord(pts, 2), r)
    /\ pc' = "svg"
    /\ UNCHANGED <<err, args, palette, width, height, pixels, color_grid, ix, iy,
                   writes, pitch, radius, width_limit, coords, emitted, masks,
                   svg, stl, files, metadata, query, best>>

\* ------------------------------------------------------------------------
\* export_svg
\* ------------------------------------------------------------------------

Black == <<"#", "0", "0", "0", "0", "0", "0">>
Charcoal == <<"c", "h", "a", "r", "c", "o", "a", "l">>

\* lines 251-255
color_hex(name, pal) ==
    IF \E i \in 1..Len(pal) : pal[i].name = name
    THEN LET i == CHOOSE i \in 1..Len(pal) :
                     pal[i].name = name /\ \A j \in 1..(i - 1) : pal[j].name # name
         IN  ColorHexString(pal[i].color)
    ELSE Black

\* lines 258-262
Background(pal) ==
    IF \E i \in 1..Len(pal) : Lower(pal[i].name) = Charcoal
    THEN LET i == CHOOSE i \in 1..Len(pal) :
                     /\ Lower(pal[i].name) = Charcoal
                     /\ \A j \in 1..(i - 1) : Lower(pal[j].name) # Charcoal
         IN  ColorHexString(pal[i].color)
    ELSE Black

\* lines 271-275: the group of one coords item
SvgGroup(name, positions, pal, r) ==
    [tag |-> "g", id |-> slugify(name), fill |-> color_hex(name, pal),
     circles |-> [i \in 1..Len(positions) |->
                    [cx |-> Fixed3(positions[i][1]), cy |-> Fixed3(positions[i][2]),
                     r |-> Fixed3(r)]]]

\* lines 270-275: for name, positions in coords.items()
RECURSIVE SvgGroups(_, _, _, _)
SvgGroups(crd, keys, pal, r) ==
    IF keys = <<>> THEN <<>>
    ELSE <<SvgGroup(Head(keys), crd[Head(keys)], pal, r)>>
         \o SvgGroups(crd, Tail(keys), pal, r)

export_svg(crd, pal, dot_diameter, w_mm, h_mm) ==
    <<[tag |-> "svg", width |-> w_mm, height |-> h_mm],
      [tag |-> "rect", width |-> w_mm, height |-> h_mm, fill |-> Background(pal)]>>
    \o SvgGroups(crd, KeyOrder(pal), pal, Radius(dot_diameter))

\* run lines 356-363
ExportSvg ==
    /\ Stage("svg")
    /\ svg' = export_svg(coords, palette, args.dot_diameter_mm, width_mm_used,
                         height_mm_used)
    /\ pc' = "stl"
    /\ UNCHANGED <<err, args, palette, width, height, pixels, color_grid, ix, iy,
                   writes, pitch, radius, width_limit, coords, emitted, masks,
                   width_mm_used, height_mm_used, stl, files, metadata, query,
                   best>>

\* ------------------------------------------------------------------------
\* export_stl_meshes
\* ------------------------------------------------------------------------

\* A vertex is <<x, y, z>>.  The rim of a dot is not evaluated: its x and y
\* are the terms c + r * cos(2 pi k / n) and c + r * sin(2 pi k / n).
RimX(cx, r, k, n) == [fn |-> "cos", c |-> cx, r |-> r, k |-> k, n |-> n]
RimY(cy, r, k, n) == [fn |-> "sin", c |-> cy, r |-> r, k |-> k, n |-> n]

\* lines 184-200
BoxTriangles(x0, y0, x1, y1, z0, z1) ==
    << << <<x0, y0, z0>>, <<x1, y0, z0>>, <<x1, y1, z0>> >>,
       << <<x0, y0, z0>>, <<x1, y1, z0>>, <<x0, y1, z0>> >>,
       << <<x0, y0, z1>>, <<x1, y1, z1>>, <<x1, y0, z1>> >>,
       << <<x0, y0, z1>>, <<x0, y1, z1>>, <<x1, y1, z1>> >>,
       << <<x0, y0, z0>>, <<x0, y0, z1>>, <<x1, y0, z1>> >>,
       << <<x0, y0, z0>>, <<x1, y0, z1>>, <<x1, y0, z0>> >>,
       << <<x1, y0, z0>>, <<x1, y0, z1>>, <<x1, y1, z1>> >>,
       << <<x1, y0, z0>>, <<x1, y1, z1>>, <<x1, y1, z0>> >>,
       << <<x1, y1, z0>>, <<x1, y1, z1>>, <<x0, y1, z1>> >>,
       << <<x1, y1, z0>>, <<x0, y1, z1>>, <<x0, y1, z0>> >>,
       << <<x0, y1, z0>>, <<x0, y1, z1>>, <<x0, y0, z1>> >>,
       << <<x0, y1, z0>>, <<x0, y0, z1>>, <<x0, y0, z0>> >> >>

_add_box(tris, x0, y0, x1, y1, z0, z1) == tris \o BoxTriangles(x0, y0, x1, y1, z0, z1)

\* a slip: the bottom fan left out
SegmentWithoutBottom(cx, cy, r, z0, z1, n, i) ==
    LET x0 == RimX(cx, r, i, n)
        y0 == RimY(cy, r, i, n)
        x1 == RimX(cx, r, i + 1, n)
        y1 == RimY(cy, r, i + 1, n)
    IN  << << <<x0, y0, z0>>, <<x1, y1, z0>>, <<x1, y1, z1>> >>,
           << <<x0, y0, z0>>, <<x1, y1, z1>>, <<x0, y0, z1>> >>,
           << <<cx, cy, z1>>, <<x1, y1, z1>>, <<x0, y0, z1>> >> >>

\* lines 209-223: the four triangles of segment i
SegmentTriangles(cx, cy, r, z0, z1, n, i) ==
    LET x0 == RimX(cx, r, i, n)
        y0 == RimY(cy, r, i, n)
        x1 == RimX(cx, r, i + 1, n)
        y1 == RimY(cy, r, i + 1, n)
    IN  << << <<x0, y0, z0>>, <<x1, y1, z0>>, <<x1, y1, z1>> >>,
           << <<x0, y0, z0>>, <<x1, y1, z1>>, <<x0, y0, z1>> >>,
           << <<cx, cy, z1>>, <<x1, y1, z1>>, <<x0, y0, z1>> >>,
           << <<cx, cy, z0>>, <<x0, y0, z0>>, <<x1, y1, z0>> >> >>

\* for i in range(segments), from i on
RECURSIVE CylinderLoop(_, _, _, _, _, _, _)
CylinderLoop(cx, cy, r, z0, z1, n, i) ==
    IF i >= n THEN <<>>
    ELSE SegmentTriangles(cx, cy, r, z0, z1, n, i)
         \o CylinderLoop(cx, cy, r, z0, z1, n, i + 1)

_add_cylinder(tris, cx, cy, r, z0, z1, n) ==
    tris \o CylinderLoop(cx, cy, r, z0, z1, n, 0)

\* lines 311-312: one cylinder per position
RECURSIVE DotTriangles(_, _, _, _, _)
DotTriangles(positions, r, z0, z1, n) ==
    IF positions = <<>> THEN <<>>
    ELSE _add_cylinder(DotTriangles(SubSeq(positions, 1, Len(positions) - 1),
                                    r, z0, z1, n),
                       positions[Len(positions)][1], positions[Len(positions)][2],
                       r, z0, z1, n)

BaseName == <<"b", "a", "s", "e">>
StlFile(part) == part \o <<".", "s", "t", "l">>

\* lines 307-316: the write_ascii_stl call of one coords item
StlPart(name, positions, r, z0, z1, n) ==
    [solid |-> slugify(name), file |-> StlFile(slugify(name)),
     tris |-> DotTriangles(positions, r, z0, z1, n)]

RECURSIVE StlParts(_, _, _, _, _, _)
StlParts(crd, keys, r, z0, z1, n) ==
    IF keys = <<>> THEN <<>>
    ELSE <<StlPart(Head(keys), crd[Head(keys)], r, z0, z1, n)>>
         \o StlParts(crd, Tail(keys), r, z0, z1, n)

\* lines 296-316: every write_ascii_stl call, the base first
StlWrites(crd, pal, w_mm, h_mm, dot_diameter, dot_height, base_thickness, n) ==
    <<[solid |-> BaseName, file |-> StlFile(BaseName),
       tris |-> _add_box(<<>>, FZero, FZero, w_mm, h_mm, FZero, base_thickness)]>>
    \o StlParts(crd, KeyOrder(pal), Radius(dot_diameter), base_thickness,
                FAdd(base_thickness, dot_height), n)

\* lines 305 and 316: the returned mapping of part name to file name
StlFiles(written) ==
    [part \in {written[i].solid : i \in 1..Len(written)} |-> StlFile(part)]

\* run lines 365-375
ExportStl ==
    /\ Stage("stl")
    /\ LET written == StlWrites(coords, palette, width_mm_used, height_mm_used,
                                args.dot_diameter_mm, args.dot_height_mm,
                                args.base_thickness_mm, args.segments)
       IN  /\ stl' = written
           /\ files' = StlFiles(written)
    /\ pc' = "metadata"
    /\ UNCHANGED <<err, args, palette, width, height, pixels, color_grid, ix, iy,
                   writes, pitch, radius, width_limit, coords, emitted, masks,
                   width_mm_used, height_mm_used, svg, metadata, query, best>>

\* ------------------------------------------------------------------------
\* run: the metadata, lines 377-409 (the coverage figures are not modelled)
\* ------------------------------------------------------------------------

RECURSIVE TotalDots(_, _)
TotalDots(crd, keys) ==
    IF keys = <<>> THEN 0 ELSE Len(crd[Head(keys)]) + TotalDots(crd, Tail(keys))

SaveMetadata ==
    /\ Stage("metadata")
    /\ metadata' = [pixel_dimensions |-> [width |-> width, height |-> height],
                    grid |-> [vertical_pitch_mm |-> Pitch(args.spacing_mm),
                              width_mm |-> width_mm_used,
                              height_mm |-> height_mm_used],
                    coverage |-> [total_dots |-> TotalDots(coords, KeyOrder(palette))],
                    palette |-> palette,
                    stl_files |-> files]
    /\ pc' = "done"
    /\ UNCHANGED <<err, args, palette, width, height, pixels, color_grid, ix, iy,
                   writes, pitch, radius, width_limit, coords, emitted, masks,
                   width_mm_used, height_mm_used, svg, stl, files, query, best>>

\* a direct call of nearest_color(query, palette)
NearestCall ==
    /\ Stage("nearest")
    /\ best' = nearest_color(query, palette)
    /\ pc' = "nearest_done"
    /\ UNCHANGED <<err, args, palette, width, height, pixels, color_grid, ix, iy,
                   writes, pitch, radius, width_limit, coords, emitted, masks,
                   width_mm_used, height_mm_used, svg, stl, files, metadata,
                   query>>

\* ------------------------------------------------------------------------
\* Inputs and specifications
\* ------------------------------------------------------------------------

MaxImage == 2
MaxW == 2
MaxH == 2
MaxPalette == 3
MaxGridW == 2
MaxGridH == 2
MaxTenths == 6
MaxSegments == 12
MaxDots == 2

Entry(name, color) == [name |-> name, color |-> color]

RunArgs(image, palette_file, selected, width_mm, spacing, dot, dot_height, base, seg) ==
    [image |-> image, palette_file |-> palette_file, selected_colors |-> selected,
     width_mm |-> width_mm, spacing_mm |-> spacing, dot_diameter_mm |-> dot,
     dot_height_mm |-> dot_height, base_thickness_mm |-> base, segments |-> seg]

NoImage == [width |-> 1, height |-> 1]

SeqsUpTo(S, n) == UNION {[1..k -> S] : k \in 1..n}

Red == <<255, 0, 0>>
Blue == <<0, 0, 255>>
PaletteAB == <<Entry(Str("A"), Red), Entry(Str("B"), Blue)>>

\* --- nearest_color on its own -------------------------------------------

QueryColors == {<<r, g, b>> : r \in {0, 100, 255}, g \in {0, 100}, b \in {0, 100, 255}}

NearestEntries ==
    {Entry(Str("A"), <<90, 100, 100>>), Entry(Str("B"), <<110, 100, 100>>),
     Entry(Str("C"), Red), Entry(Str("D"), Blue)}

InitNearest ==
    /\ pc = "nearest"
    /\ err = ""
    /\ args = <<>>
    /\ palette \in SeqsUpTo(NearestEntries, MaxPalette)
    /\ width = 0 /\ height = 0 /\ pixels = <<>> /\ color_grid = <<>>
    /\ ix = 0 /\ iy = 0 /\ writes = <<>>
    /\ pitch = FZero /\ radius = FZero /\ width_limit = FZero
    /\ coords = <<>> /\ emitted = <<>> /\ masks = <<>>
    /\ width_mm_used = FZero /\ height_mm_used = FZero
    /\ svg = <<>> /\ stl = <<>> /\ files = <<>> /\ metadata = <<>>
    /\ query \in QueryColors
    /\ best = <<>>

NextNearest == NearestCall

SpecNearest == InitNearest /\ [][NextNearest]_vars

\* --- floyd_steinberg_dither on its own -----------------------------------

Black3 == <<0, 0, 0>>
White3 == <<255, 255, 255>>

\* a palette and the colors the pixels of the image are drawn from
DitherCase(pal, colors) == [palette |-> pal, colors |-> colors]

Purple == <<130, 0, 120>>
Warm == <<250, 10, 128>>
Cool == <<5, 245, 128>>

DitherCases ==
    {DitherCase(PaletteAB, {Red, Purple}),
     DitherCase(<<Entry(Str("K"), Black3)>>, {Warm, Cool}),
     DitherCase(<<Entry(Str("W"), White3)>>, {Warm, Cool}),
     DitherCase(<<Entry(Str("K"), Black3), Entry(Str("W"), White3)>>, {Warm, Cool})}

InitDither ==
    /\ pc = "dither_init"
    /\ err = ""
    /\ args = <<>>
    /\ width \in 1..MaxW
    /\ height \in 1..MaxH
    /\ \E case \in DitherCases :
          /\ palette = case.palette
          /\ pixels \in [Cells(width, height) -> case.colors]
    /\ color_grid = <<>>
    /\ ix = 0 /\ iy = 0 /\ writes = <<>>
    /\ pitch = FZero /\ radius = FZero /\ width_limit = FZero
    /\ coords = <<>> /\ emitted = <<>> /\ masks = <<>>
    /\ width_mm_used = FZero /\ height_mm_used = FZero
    /\ svg = <<>> /\ stl = <<>> /\ files = <<>> /\ metadata = <<>>
    /\ query = <<>>
    /\ best = <<>>

\* the call has returned
DitherReturned == pc = "masks_init"

NextDither == DitherInit \/ DitherPixel \/ DitherReturn

SpecDither == InitDither /\ [][NextDither]_vars

\* --- export_masks and the extents of run on their own --------------------

\* float("0.1") ... float(MaxTenths / 10), and 1.0
Lengths == {Tenths(n) : n \in 1..MaxTenths} \cup {FFromInt(1)}

\* name grids: one color, columns alternating, diagonals alternating
GridPatterns(w, h, pal) ==
    {[c \in Cells(w, h) |-> pal[1 + ((k[1] * c[1] + k[2] * c[2]) % Len(pal))].name] :
        k \in {<<0, 0>>, <<1, 0>>, <<1, 1>>}}

InitGrid ==
    /\ pc = "masks_init"
    /\ err = ""
    /\ \E spacing \in Lengths, dot \in Lengths :
          args = RunArgs(NoImage, <<>>, None, FZero, spacing, dot,
                         Tenths(4), Tenths(6), MaxSegments)
    /\ palette = PaletteAB
    /\ width \in 1..MaxGridW
    /\ height \in 1..MaxGridH
    /\ pixels = <<>>
    /\ color_grid \in GridPatterns(width, height, palette)
    /\ ix = 0 /\ iy = 0 /\ writes = <<>>
    /\ pitch = FZero /\ radius = FZero /\ width_limit = FZero
    /\ coords = <<>> /\ emitted = <<>> /\ masks = <<>>
    /\ width_mm_used = FZero /\ height_mm_used = FZero
    /\ svg = <<>> /\ stl = <<>> /\ files = <<>> /\ metadata = <<>>
    /\ query = <<>>
    /\ best = <<>>

NextGrid == MasksInit \/ MaskCell \/ MasksReturn \/ Extents

SpecGrid == InitGrid /\ [][NextGrid]_vars

\* --- export_stl_meshes on its own ----------------------------------------

\* the k-th dot center of a row of dots one millimeter apart
Dot(k) == <<FAdd(Tenths(5), FFromInt(k)), Tenths(5)>>

\* na dots of the first palette name followed by nb dots of the second
DotCoords(pal, na, nb) ==
    [n \in Names(pal) |->
        IF n = pal[1].name THEN [k \in 1..na |-> Dot(k - 1)]
        ELSE [k \in 1..nb |-> Dot(na + k - 1)]]

MinSegments == 3

InitMesh ==
    /\ pc = "stl"
    /\ err = ""
    /\ \E seg \in MinSegments..MaxSegments :
          args = RunArgs(NoImage, <<>>, None, FZero, FFromInt(1), FFromInt(1),
                         Tenths(4), Tenths(6), seg)
    /\ palette = PaletteAB
    /\ width = 0 /\ height = 0
    /\ pixels = <<>>
    /\ color_grid = <<>>
    /\ ix = 0 /\ iy = 0 /\ writes = <<>>
    /\ pitch = FZero /\ radius = FZero /\ width_limit = FZero
    /\ \E na, nb \in 0..MaxDots : coords = DotCoords(palette, na, nb)
    /\ emitted = <<>> /\ masks = <<>>
    /\ width_mm_used = FFromInt(2 * MaxDots + 1) /\ height_mm_used = FFromInt(1)
    /\ svg = <<>> /\ stl = <<>> /\ files = <<>> /\ metadata = <<>>
    /\ query = <<>>
    /\ best = <<>>

NextMesh == ExportStl

SpecMesh == InitMesh /\ [][NextMesh]_vars

\* --- run ----------------------------------------------------------------

HexRed == <<"#", "F", "F", "0", "0", "0", "0">>
HexBlue == <<"0", "0", "0", "0", "f", "f">>
HexBad == <<"#", "F", "F", "0", "0", "0">>

PaletteFileAB == <<[name |-> Str("A"), hex |-> HexRed], [name |-> Str("B"), hex |-> HexBlue]>>
PaletteFileBad == <<[name |-> Str("A"), hex |-> HexRed], [name |-> Str("B"), hex |-> HexBad]>>

\* one dot per pixel of the image at a spacing of 1.0 mm
Plain(image) ==
    RunArgs(image, PaletteFileAB, None, FFromInt(image.width), FFromInt(1),
            FFromInt(1), Tenths(4), Tenths(6), MinSegments)

Square2 == [width |-> 2, height |-> 2]

\* Plain runs on every image size, and runs on a 2 x 2 image that change one
\* argument: the selection, the palette file, the spacing, the dot diameter,
\* the segment count
RunInputs ==
    {Plain([width |-> w, height |-> h]) : w \in 1..MaxImage, h \in 1..MaxImage}
    \cup {[Plain(Square2) EXCEPT !.selected_colors = sel] :
             sel \in {Given(<<>>), Given(<<Str("a")>>), Given(<<Str("x")>>)}}
    \cup {[Plain(Square2) EXCEPT !.palette_file = PaletteFileBad]}
    \cup {[Plain(Square2) EXCEPT !.spacing_mm = v] : v \in {FZero, FFromInt(-1)}}
    \cup {[Plain(Square2) EXCEPT !.dot_diameter_mm = v] : v \in {FZero, FFromInt(-1)}}
    \cup {[Plain(Square2) EXCEPT !.segments = n] : n \in {2, 0, -1}}

Init ==
    /\ pc = "load"
    /\ err = ""
    /\ args \in RunInputs
    /\ palette = <<>>
    /\ width = 0 /\ height = 0
    /\ pixels = <<>>
    /\ color_grid = <<>>
    /\ ix = 0 /\ iy = 0 /\ writes = <<>>
    /\ pitch = FZero /\ radius = FZero /\ width_limit = FZero
    /\ coords = <<>> /\ emitted = <<>> /\ masks = <<>>
    /\ width_mm_used = FZero /\ height_mm_used = FZero
    /\ svg = <<>> /\ stl = <<>> /\ files = <<>> /\ metadata = <<>>
    /\ query = <<>>
    /\ best = <<>>

Next ==
    \/ LoadPalette
    \/ Resize
    \/ DitherInit
    \/ DitherPixel
    \/ DitherReturn
    \/ MasksInit
    \/ MaskCell
    \/ MasksReturn
    \/ Extents
    \/ ExportSvg
    \/ ExportStl
    \/ SaveMetadata

Spec == Init /\ [][Next]_vars

\* ------------------------------------------------------------------------
\* Claims
\* ------------------------------------------------------------------------

\* the cell (x, y) has been quantized by the running or finished scan
Quantized(c) ==
    \/ DitherReturned
    \/ pc = "dither" /\ (c[2] < iy \/ (c[2] = iy /\ c[1] < ix))

\* C1: at every moment of the scan and after it, every pixel already quantized
\* holds the color of a palette entry and its grid cell holds that entry's
\* name (so no later diffusion has changed it); the returned image and the
\* name grid have the same W x H cells.
C1_PaletteClosure ==
    pc \in {"dither", "masks_init"} =>
        /\ DOMAIN pixels = Cells(width, height)
        /\ DOMAIN color_grid = Cells(width, height)
        /\ \A c \in Cells(width, height) :
              Quantized(c) =>
                  \E i \in 1..Len(palette) :
                      /\ pixels[c] = palette[i].color
                      /\ color_grid[c] = palette[i].name

\* C1 witness: a returned image of more than one row and column whose pixels
\* were assigned two different palette entries.
C1_Witness ==
    /\ DitherReturned
    /\ width > 1
    /\ height > 1
    /\ \E c, d \in Cells(width, height) : color_grid[c] # color_grid[d]

\* C2: the entry nearest_color returns is the first entry of the palette, in
\* palette order, whose squared RGB distance to the color is the minimum.
C2_NearestFirstMinimum ==
    pc = "nearest_done" =>
        \E i \in 1..Len(palette) :
            /\ best = palette[i]
            /\ \A j \in 1..Len(palette) :
                  SqDist(query, palette[j].color) >= SqDist(query, palette[i].color)
            /\ \A j \in 1..(i - 1) :
                  SqDist(query, palette[j].color) > SqDist(query, palette[i].color)

\* C2 witness: a call answered with one of two different entries that are both
\* at the minimum distance.
C2_Witness ==
    /\ pc = "nearest_done"
    /\ \E i, j \in 1..Len(palette) :
          /\ i < j
          /\ best = palette[i]
          /\ palette[j] # palette[i]
          /\ SqDist(query, palette[j].color) = SqDist(query, palette[i].color)

\* the cell the last iteration of the scan quantized
LastCell == IF ix > 0 THEN <<ix - 1, iy>> ELSE <<width - 1, iy - 1>>

\* C3: every store made by add_error puts integers of [0, 255] into a pixel
\* inside the buffer, and the stores of one iteration are exactly those to the
\* east, south-west, south and south-east neighbours that lie inside it.
C3_DiffusionClamped ==
    pc \in {"dither", "masks_init"} =>
        /\ \A i \in 1..Len(writes) :
              /\ <<writes[i].px, writes[i].py>> \in Cells(width, height)
              /\ \A c \in 1..3 : writes[i].value[c] \in 0..255
        /\ \A c \in Cells(width, height) : \A k \in 1..3 : pixels[c][k] \in 0..255
        /\ DOMAIN pixels = Cells(width, height)
        /\ (pc = "dither" /\ <<ix, iy>> # <<0, 0>>) =>
              LET x == LastCell[1]
                  y == LastCell[2]
              IN  {<<writes[i].px, writes[i].py>> : i \in 1..Len(writes)}
                  = {<<x + 1, y>>, <<x - 1, y + 1>>, <<x, y + 1>>, <<x + 1, y + 1>>}
                    \cap Cells(width, height)

\* C3 witness: an iteration that skipped a neighbour outside the buffer and
\* made a store whose sum had left [0, 255].
C3_Witness ==
    /\ pc = "dither"
    /\ Len(writes) \in 1..3
    /\ \E i \in 1..Len(writes) : \E c \in 1..3 :
          writes[i].raw[c] > 255 /\ writes[i].value[c] = 255
    /\ \E i \in 1..Len(writes) : \E c \in 1..3 :
          writes[i].raw[c] < 0 /\ writes[i].value[c] = 0

\* the points emitted for one name, in scan order
RECURSIVE EmittedFor(_, _)
EmittedFor(log, name) ==
    IF log = <<>> THEN <<>>
    ELSE (IF Head(log).name = name THEN <<Head(log).pt>> ELSE <<>>)
         \o EmittedFor(Tail(log), name)

MapperRunning == pc \in {"masks", "extents", "svg"}

\* C4: every point emitted for a cell (x, y) is x_mm = radius + x * spacing +
\* offset, with offset = spacing / 2 on odd rows and 0 on even rows, and
\* y_mm = radius + y * pitch, with radius = dot_diameter / 2, and is stored
\* under the cell's name; for spacing = diameter = 1.0 the cell (0, 1) is at
\* x_mm = 1.0 and the cell (0, 0) at x_mm = 0.5.
C4_StaggeredCoordinates ==
    MapperRunning =>
        LET spacing == args.spacing_mm
            r       == FDiv(args.dot_diameter_mm, FFromInt(2))
            p       == FDiv(FMul(spacing, Sqrt3), FFromInt(2))
        IN  /\ \A i \in 1..Len(emitted) :
                  LET e      == emitted[i]
                      offset == IF e.y % 2 = 1 THEN FDiv(spacing, FFromInt(2))
                                ELSE FZero
                  IN  /\ e.name = color_grid[<<e.x, e.y>>]
                      /\ e.pt[1] = FAdd(FAdd(r, FMul(FFromInt(e.x), spacing)), offset)
                      /\ e.pt[2] = FAdd(r, FMul(FFromInt(e.y), p))
                      /\ (spacing = FFromInt(1) /\ args.dot_diameter_mm = FFromInt(1)) =>
                            /\ (e.x = 0 /\ e.y = 1) => e.pt[1] = FFromInt(1)
                            /\ (e.x = 0 /\ e.y = 0) => e.pt[1] = Tenths(5)
            /\ \A n \in DOMAIN coords : coords[n] = EmittedFor(emitted, n)

\* C4 witness: with spacing = diameter = 1.0 the cells (0, 0) and (0, 1) have
\* both been emitted, at x_mm = 0.5 and x_mm = 1.0.
C4_Witness ==
    /\ pc = "extents"
    /\ args.spacing_mm = FFromInt(1)
    /\ args.dot_diameter_mm = FFromInt(1)
    /\ \E i, j \in 1..Len(emitted) :
          /\ emitted[i].x = 0 /\ emitted[i].y = 0 /\ emitted[i].pt[1] = Tenths(5)
          /\ emitted[j].x = 0 /\ emitted[j].y = 1 /\ emitted[j].pt[1] = FFromInt(1)

EmittedCells == {<<emitted[i].x, emitted[i].y>> : i \in 1..Len(emitted)}

\* C5, as claimed: once the grid is mapped, at most W * H points were emitted,
\* every cell of an even row was emitted exactly once, and only cells of odd
\* rows were dropped.
C5_OnlyOddRowsTrimmed ==
    pc = "extents" =>
        /\ TotalDots(coords, KeyOrder(palette)) <= width * height
        /\ TotalDots(coords, KeyOrder(palette)) = Len(emitted)
        /\ Cardinality(EmittedCells) = Len(emitted)
        /\ \A c \in Cells(width, height) :
              /\ c[2] % 2 = 0 => c \in EmittedCells
              /\ c \notin EmittedCells => c[2] % 2 = 1

\* C10, as claimed: the width and height run passes on are the maxima of
\* x + radius and y + radius over the emitted points; no emitted point has
\* x + radius above width_limit and the last cell of row 0 reaches it.
C10_ExtentsAreMaxima ==
    pc = "svg" =>
        LET pts == AllPoints(coords, KeyOrder(palette))
            r   == FDiv(args.dot_diameter_mm, FFromInt(2))
        IN  /\ pts # <<>>
            /\ width_mm_used = FAdd(MaxCoord(pts, 1), r)
            /\ height_mm_used = FAdd(MaxCoord(pts, 2), r)
            /\ \A i \in 1..Len(pts) : ~FGt(FAdd(pts[i][1], r), width_limit)
            /\ \E i \in 1..Len(emitted) :
                  /\ emitted[i].x = width - 1
                  /\ emitted[i].y = 0
                  /\ FAdd(emitted[i].pt[1], r) = width_limit

\* the run of the 2 x 2 scenario: palette A, B and spacing = diameter = 1.0
Scenario ==
    /\ args.image = Square2
    /\ args.spacing_mm = FFromInt(1)
    /\ args.dot_diameter_mm = FFromInt(1)
    /\ palette = PaletteAB
    /\ width = 2
    /\ height = 2

Mapped == pc \in {"extents", "svg", "stl", "metadata", "done"}

\* C6, as claimed: the 2 x 2 scenario ends with 4 coordinate points in total.
C6_FourPoints ==
    (Mapped /\ Scenario) =>
        /\ Len(coords[Str("A")]) + Len(coords[Str("B")]) = 4
        /\ pc = "done" => metadata.coverage.total_dots = 4

\* C6, amended: the 2 x 2 scenario ends with 3 coordinate points in total, one
\* for each of the cells (0, 0), (1, 0) and (0, 1) and none for the cell
\* (1, 1), which the trim drops; each point is stored under the name the
\* ditherer gave its cell, the name of the palette entry whose color the
\* dithered pixel has; the row-1 point is 0.5 mm to the right of the point of
\* the cell (0, 0).
C6_ThreePoints ==
    (Mapped /\ Scenario) =>
        /\ Len(coords[Str("A")]) + Len(coords[Str("B")]) = 3
        /\ pc = "done" => metadata.coverage.total_dots = 3
        /\ Len(emitted) = 3
        /\ EmittedCells = {<<0, 0>>, <<1, 0>>, <<0, 1>>}
        /\ \A n \in DOMAIN coords : coords[n] = EmittedFor(emitted, n)
        /\ \A i \in 1..Len(emitted) :
              \E k \in 1..Len(palette) :
                  /\ emitted[i].name = palette[k].name
                  /\ color_grid[<<emitted[i].x, emitted[i].y>>] = palette[k].name
                  /\ pixels[<<emitted[i].x, emitted[i].y>>] = palette[k].color
        /\ emitted[3].pt[1] = FAdd(emitted[1].pt[1], Tenths(5))

\* C6 witness: a finished run of the scenario with points under both names.
C6_Witness ==
    /\ pc = "done"
    /\ Scenario
    /\ metadata.coverage.total_dots = 3
    /\ coords[Str("A")] # <<>>
    /\ coords[Str("B")] # <<>>

\* the z values of the vertices of a mesh
ZValues(tris) == {tris[t][v][3] : t \in 1..Len(tris), v \in 1..3}

\* C7: the mesh written as the base has exactly 12 triangles; the mesh written
\* for a name with n points has exactly 4 * segments * n triangles, the k-th
\* block of 4 * segments triangles being the dot of the k-th point; every
\* vertex of a dot has z = base_thickness or z = base_thickness + dot_height.
C7_TriangleCounts ==
    pc = "metadata" =>
        LET s == args.segments
        IN  /\ Len(stl) = 1 + Len(palette)
            /\ stl[1].solid = BaseName
            /\ Len(stl[1].tris) = 12
            /\ \A k \in 1..Len(palette) :
                  LET pts  == coords[palette[k].name]
                      tris == stl[k + 1].tris
                  IN  /\ Len(tris) = 4 * s * Len(pts)
                      /\ ZValues(tris) \subseteq
                            {args.base_thickness_mm,
                             FAdd(args.base_thickness_mm, args.dot_height_mm)}
                      /\ \A j \in 1..Len(pts) :
                            \A t \in (4 * s * (j - 1) + 1)..(4 * s * j) :
                                \A v \in 1..3 :
                                    LET vx == tris[t][v][1]
                                    IN  vx = pts[j][1]
                                        \/ (vx # pts[j][1] /\ vx.c = pts[j][1])

\* C7 witness: a one-dot mesh of 12 segments and 48 triangles was written next
\* to a 12-triangle base.
C7_Witness ==
    /\ pc = "metadata"
    /\ args.segments = 12
    /\ Len(stl[1].tris) = 12
    /\ \E k \in 1..Len(palette) :
          /\ Len(coords[palette[k].name]) = 1
          /\ Len(stl[k + 1].tris) = 48

\* C8, as claimed: the vector file has a group, and the mesh export a solid
\* and an entry of the returned file map, only for names with at least one
\* point.
C8_NoEmptyParts ==
    /\ pc \in {"stl", "metadata", "done"} =>
          \A i \in 3..Len(svg) :
              \E n \in DOMAIN coords : slugify(n) = svg[i].id /\ coords[n] # <<>>
    /\ pc \in {"metadata", "done"} =>
          /\ \A i \in 2..Len(stl) :
                \E n \in DOMAIN coords : slugify(n) = stl[i].solid /\ coords[n] # <<>>
          /\ \A part \in DOMAIN files \ {BaseName} :
                \E n \in DOMAIN coords : slugify(n) = part /\ coords[n] # <<>>

\* an invalid configuration: a color that is not a hex color, no palette entry
\* left by the selection, or spacing, dot diameter or segments out of range
InvalidConfig ==
    \/ \E i \in 1..Len(args.palette_file) : ~HexValid(args.palette_file[i].hex)
    \/ load_palette(args.palette_file, args.selected_colors) = <<>>
    \/ args.spacing_mm.s <= 0
    \/ args.dot_diameter_mm.s <= 0
    \/ args.segments < MinSegments

\* C9, as claimed: a run of an invalid configuration never gets past loading
\* and resizing: it has no dithered image, no coordinates, no vector file and
\* no mesh.
C9_FailFast ==
    InvalidConfig =>
        /\ pc \in {"load", "resize"}
        /\ color_grid = <<>>
        /\ coords = <<>>
        /\ svg = <<>>
        /\ stl = <<>>

====
